---- MODULE Spec2Model ----
(***************************************************************************)
(* The orchestration code of training.py: run(), test_model() and          *)
(* load_model_and_only_test().  Networks, optimizers, the checkpoint       *)
(* store and the loss values are abstract: a network is identified by its  *)
(* origin (freshly constructed / loaded from a checkpoint) and by the      *)
(* number of gradient updates applied to it.                               *)
(***************************************************************************)
EXTENDS Integers, Sequences, FiniteSets, TLC

\* ------------------------------------------------------------------ bounds
MaxBatches == 3      \* batches of the training dataset: 0..MaxBatches
MaxEvalBatches == 1  \* batches of the validation / test dataset: 0..MaxEvalBatches
MaxTestBatches == 3  \* batches of the test dataset of the test-only entry
MaxEvery == 2        \* SAVE_EVERY_TRAIN, SAVE_EVERY_TEST, VALIDATION_EVERY: 1..MaxEvery
MaxEpochs == 2       \* EPOCHS = MaxEpochs; start_epoch: 0..MaxEpochs+1

\* --------------------------------------------------- literals of the source
HardGenLR == 2       \* Adam(2e-4, ...) in run(), in units of 1e-4
HardDiscLR == 1      \* Adam(1e-4, ...) in run(), in units of 1e-4
HardBeta == 5        \* beta_1=0.5 in run(), in tenths

VARIABLES
    \* configuration imported from params (training.py line 8)
    EPOCHS, SAVE_EVERY_TRAIN, SAVE_EVERY_TEST, VALIDATION_EVERY,
    LEARNING_RATE_GEN, LEARNING_RATE_DISC, BETA,
    \* the call: entry point and its arguments
    entry, resume_train, robotics_task, start_epoch, arg_epoch,
    \* the environment: checkpoint store and dataset sizes (in batches)
    disk, num_batches, val_batches, test_batches,
    \* the CycleGAN aggregate: four networks and two optimizers
    nets, g_optimizer, d_optimizer,
    \* locals of run()
    pc, epoch, batch, train_loss, train_hist, val_hist,
    \* the active call of test_model (if any) and its last return value
    tm, tm_result,
    \* history: the operations performed so far, in order
    log

cfgVars == <<EPOCHS, SAVE_EVERY_TRAIN, SAVE_EVERY_TEST, VALIDATION_EVERY,
             LEARNING_RATE_GEN, LEARNING_RATE_DISC, BETA>>
callVars == <<entry, resume_train, robotics_task, arg_epoch>>
envVars == <<num_batches, val_batches, test_batches>>
vars == <<cfgVars, callVars, envVars, start_epoch, disk, nets, g_optimizer,
          d_optimizer, pc, epoch, batch, train_loss, train_hist, val_hist,
          tm, tm_result, log>>

\* ---------------------------------------------------------------- networks
NetNames == {"G", "F", "D_X", "D_Y"}

UnsetNet == [origin |-> "unset", tag |-> -1, ver |-> 0]
NoNets == [n \in NetNames |-> UnsetNet]

\* make_generator_model(shape) / make_discriminator_model(shape): a new network
make_generator_model == [origin |-> "fresh", tag |-> -1, ver |-> 0]
make_discriminator_model == [origin |-> "fresh", tag |-> -1, ver |-> 0]

FreshNets == [n \in NetNames |->
                IF n \in {"G", "F"} THEN make_generator_model
                                    ELSE make_discriminator_model]

\* ------------------------------------------------------- checkpoint store
Tags == 0..(MaxEpochs + 1)
NoCkpt == [state |-> "absent", nets |-> NoNets]
CorruptCkpt == [state |-> "corrupt", nets |-> NoNets]
\* a checkpoint left by an earlier run for epoch e
PriorCkpt(e) == [state |-> "ok",
                 nets |-> [n \in NetNames |-> [origin |-> "prior", tag |-> e, ver |-> 0]]]

\* load_models(e) succeeds iff a readable checkpoint is stored under e
LoadSucceeds(e) == e \in Tags /\ disk[e].state = "ok"
\* load_models(e): the four networks rebuilt from the stored weights
load_models(e) == [n \in NetNames |-> [origin |-> "ckpt", tag |-> e,
                                        ver |-> disk[e].nets[n].ver]]
\* save_models(G, F, D_X, D_Y, e): store the four weight sets under tag e
save_models(m, e) == [disk EXCEPT ![e] = [state |-> "ok", nets |-> m]]

\* ------------------------------------------------------------- optimizers
NoOptimizer == [lr |-> 0, beta |-> 0, steps |-> 0]
Adam(lr, beta) == [lr |-> lr, beta |-> beta, steps |-> 0]

\* ---------------------------------------------------------- loss records
LossFields == {"G_loss", "F_loss", "D_X_loss", "D_Y_loss"}
FieldKey(f) == CASE f = "G_loss" -> 1 [] f = "F_loss" -> 2
                 [] f = "D_X_loss" -> 3 [] OTHER -> 4
\* an abstract loss value: determined by the parameters seen and the batch
LossValue(f, m, b) == (FieldKey(f) * (b + 1) + m["G"].ver) % 5
LossRecord(m, b) == [f \in LossFields |-> LossValue(f, m, b)]
NoLoss == [f \in LossFields |-> -1]

\* train_step(data): one gradient update of each of the four networks, one
\* application of the generator optimizer and of the discriminator
\* optimizer per network pair
TrainStepNets(m) == [n \in NetNames |-> [m[n] EXCEPT !.ver = @ + 1]]
TrainStepOpt(o) == [o EXCEPT !.steps = @ + 2]
\* test_step(data) and generator_G(x, training=False): forward passes only
TestStepNets(m) == m
TestStepOpt(o) == o

Ev(op, e, b, i) == [op |-> op, e |-> e, b |-> b, i |-> i]

NoCall == [active |-> FALSE, ds |-> "none", plot |-> FALSE, e |-> -1, b |-> -1,
           n |-> 0, i |-> 0, test_losses |-> <<>>]
NoResult == [avg_G_loss |-> <<0, 0>>, avg_F_loss |-> <<0, 0>>,
             avg_DX_loss |-> <<0, 0>>, avg_DY_loss |-> <<0, 0>>]
EmptyHist == [f \in LossFields |-> <<>>]
EmptyValHist == [f \in {"avg_G_loss", "avg_F_loss", "avg_DX_loss", "avg_DY_loss"} |-> <<>>]

\* ------------------------------------------------------------------- Init
\* values of (LEARNING_RATE_GEN, LEARNING_RATE_DISC, BETA) in params: the
\* ones run() spells out, and other ones
OptConfigs == { <<HardGenLR, HardDiscLR, HardBeta>>,
                <<HardGenLR + 1, HardDiscLR + 1, HardBeta + 4>> }

Init ==
    /\ EPOCHS = MaxEpochs
    /\ SAVE_EVERY_TRAIN \in 1..MaxEvery
    /\ SAVE_EVERY_TEST \in 1..MaxEvery
    /\ VALIDATION_EVERY \in 1..MaxEvery
    \* the optimizer options are varied under the shortest cadences
    /\ \E c \in OptConfigs :
          /\ LEARNING_RATE_GEN = c[1]
          /\ LEARNING_RATE_DISC = c[2]
          /\ BETA = c[3]
          /\ c # <<HardGenLR, HardDiscLR, HardBeta>> =>
                SAVE_EVERY_TRAIN = 1 /\ SAVE_EVERY_TEST = 1 /\ VALIDATION_EVERY = 1
    /\ \/ /\ entry = "run"
          /\ resume_train \in BOOLEAN
          /\ robotics_task \in BOOLEAN
          /\ num_batches \in 0..MaxBatches
          /\ val_batches \in 0..MaxEvalBatches
       \/ /\ entry = "load_model_and_only_test"
          /\ resume_train = FALSE
          /\ robotics_task = FALSE
          /\ num_batches = 0
          /\ val_batches = 0
    /\ arg_epoch \in 0..(MaxEpochs + 1)
    /\ start_epoch = arg_epoch
    \* an earlier run left checkpoints for the epochs below arg_epoch; the one
    \* a resume or a test asks for is readable, unreadable or missing
    /\ \E asked \in {PriorCkpt(arg_epoch), CorruptCkpt, NoCkpt} :
          /\ (entry = "run" /\ ~resume_train) => asked = NoCkpt
          /\ disk = [e \in Tags |->
                       IF e < arg_epoch THEN PriorCkpt(e)
                       ELSE IF e = arg_epoch THEN asked ELSE NoCkpt]
    \* the longer test datasets are given to the test-only entry
    /\ test_batches \in 0..(IF entry = "run" THEN MaxEvalBatches ELSE MaxTestBatches)
    /\ nets = NoNets
    /\ g_optimizer = NoOptimizer
    /\ d_optimizer = NoOptimizer
    /\ pc = "start"
    /\ epoch = -1
    /\ batch = -1
    /\ train_loss = NoLoss
    /\ train_hist = EmptyHist
    /\ val_hist = EmptyValHist
    /\ tm = NoCall
    /\ tm_result = NoResult
    /\ log = <<>>

\* ------------------------------------------------------------ test_model
\* np.mean over the per-batch values of one field, kept exact as <<sum, count>>
\* (count 0 is numpy's nan)
RECURSIVE SumField(_, _)
SumField(losses, f) ==
    IF losses = <<>> THEN 0 ELSE Head(losses)[f] + SumField(Tail(losses), f)
Mean(losses, f) == <<SumField(losses, f), Len(losses)>>

\* a test pass that saves no snapshot for its first batch
TestSnapshotDueSkippingZero(b) == b % SAVE_EVERY_TEST = 0 /\ b # 0

\* line 35: if batch % SAVE_EVERY_TEST == 0
TestSnapshotDue(b) == b % SAVE_EVERY_TEST = 0

\* a test pass that takes gradient steps
EvalStepNetsUpdating(m) == TrainStepNets(m)

\* line 33: test_loss = model.test_step(data)
EvalStepNets(m) == TestStepNets(m)
EvalStepOpt(o) == TestStepOpt(o)

\* a call test_model(model, dataset, plot=..., epoch=...)
Call(ds, plot, e, b) ==
    [active |-> TRUE, ds |-> ds, plot |-> plot, e |-> e, b |-> b,
     n |-> IF ds = "val" THEN val_batches ELSE test_batches,
     i |-> 0, test_losses |-> <<>>]

\* lines 27-36: one iteration of the loop over the dataset
TestModelBatch ==
    /\ tm.active
    /\ tm.i < tm.n
    /\ nets' = EvalStepNets(nets)
    /\ g_optimizer' = EvalStepOpt(g_optimizer)
    /\ d_optimizer' = EvalStepOpt(d_optimizer)
    /\ tm' = [tm EXCEPT !.i = @ + 1,
                        !.test_losses = Append(@, LossRecord(nets, tm.i))]
    /\ log' = log
              \o (IF tm.plot THEN <<Ev("plot_images", tm.e, tm.b, tm.i)>> ELSE <<>>)
              \o <<Ev("test_step", tm.e, tm.b, tm.i)>>
              \o (IF TestSnapshotDue(tm.i)
                  THEN <<Ev("save_images_test", tm.e, tm.b, tm.i)>> ELSE <<>>)
    /\ UNCHANGED <<cfgVars, callVars, envVars, start_epoch, disk, pc, epoch, batch,
                   train_loss, train_hist, val_hist, tm_result>>

\* where the caller continues after test_model returns
ReturnPc(p) == CASE p = "in_validation" -> "validation_append"
                 [] p = "in_final_test" -> "done"
                 [] p = "in_only_test" -> "done"

\* lines 37-52: the averages are computed and returned
TestModelReturn ==
    /\ tm.active
    /\ tm.i >= tm.n
    /\ tm_result' = [avg_G_loss |-> Mean(tm.test_losses, "G_loss"),
                     avg_F_loss |-> Mean(tm.test_losses, "F_loss"),
                     avg_DX_loss |-> Mean(tm.test_losses, "D_X_loss"),
                     avg_DY_loss |-> Mean(tm.test_losses, "D_Y_loss")]
    /\ log' = Append(log, Ev("test_model_return", tm.e, tm.b, tm.n))
    /\ tm' = NoCall
    /\ pc' = ReturnPc(pc)
    /\ UNCHANGED <<cfgVars, callVars, envVars, start_epoch, disk, nets, g_optimizer,
                   d_optimizer, epoch, batch, train_loss, train_hist, val_hist>>

\* ------------------------------------------------------------------- run
\* line 77: if resume_train and robotics_task==False
ResumeRequested == resume_train /\ robotics_task = FALSE

\* line 84: start_epoch = 0
FallbackStartEpoch(s) == 0

\* lines 85-88: the four networks built in the except branch
FallbackNets == FreshNets

\* lines 77-80: the checkpoint of start_epoch is loaded
RunResumeLoaded ==
    /\ pc = "start" /\ entry = "run"
    /\ ResumeRequested
    /\ LoadSucceeds(start_epoch)
    /\ nets' = load_models(start_epoch)
    /\ log' = Append(log, Ev("load_models", start_epoch, -1, -1))
    /\ pc' = "compile"
    /\ UNCHANGED <<cfgVars, callVars, envVars, start_epoch, disk, g_optimizer,
                   d_optimizer, epoch, batch, train_loss, train_hist, val_hist,
                   tm, tm_result>>

\* lines 77-88: load_models raises, the exception is caught
RunResumeFallback ==
    /\ pc = "start" /\ entry = "run"
    /\ ResumeRequested
    /\ ~LoadSucceeds(start_epoch)
    /\ start_epoch' = FallbackStartEpoch(start_epoch)
    /\ nets' = FallbackNets
    /\ log' = log \o <<Ev("load_models", start_epoch, -1, -1),
                       Ev("load_error_caught", start_epoch, -1, -1)>>
    /\ pc' = "compile"
    /\ UNCHANGED <<cfgVars, callVars, envVars, disk, g_optimizer, d_optimizer,
                   epoch, batch, train_loss, train_hist, val_hist, tm, tm_result>>

\* lines 89-93: no resume, four new networks
RunFreshModels ==
    /\ pc = "start" /\ entry = "run"
    /\ ~ResumeRequested
    /\ nets' = FreshNets
    /\ pc' = "compile"
    /\ UNCHANGED <<cfgVars, callVars, envVars, start_epoch, disk, g_optimizer,
                   d_optimizer, epoch, batch, train_loss, train_hist, val_hist,
                   tm, tm_result, log>>

\* lines 95-96: the optimizers of a training run
RunGenOptimizer == Adam(HardGenLR, HardBeta)
RunDiscOptimizer == Adam(HardDiscLR, HardBeta)

\* lines 95-145: optimizers, model, datasets, the plots of the first images of
\* the three splits, empty histories, range(start_epoch, EPOCHS)
RunCompile ==
    /\ pc = "compile"
    /\ g_optimizer' = RunGenOptimizer
    /\ d_optimizer' = RunDiscOptimizer
    /\ log' = log \o <<Ev("plot_images", -1, -1, -1), Ev("plot_images", -1, -1, -1),
                       Ev("plot_images", -1, -1, -1)>>
    /\ train_hist' = EmptyHist
    /\ val_hist' = EmptyValHist
    /\ epoch' = start_epoch
    /\ pc' = "epoch_head"
    /\ UNCHANGED <<cfgVars, callVars, envVars, start_epoch, disk, nets, batch,
                   train_loss, tm, tm_result>>

\* line 145: for epoch in range(start_epoch, EPOCHS)
EpochInRange(e) == e < EPOCHS

\* lines 145-147: an epoch begins (its banner is printed), enumerate starts at
\* batch 0
EpochBegin ==
    /\ pc = "epoch_head"
    /\ EpochInRange(epoch)
    /\ batch' = 0
    /\ log' = Append(log, Ev("epoch", epoch, -1, -1))
    /\ pc' = "batch_head"
    /\ UNCHANGED <<cfgVars, callVars, envVars, start_epoch, disk, nets, g_optimizer,
                   d_optimizer, epoch, train_loss, train_hist, val_hist, tm,
                   tm_result>>

\* line 145: the range is exhausted
EpochLoopExit ==
    /\ pc = "epoch_head"
    /\ ~EpochInRange(epoch)
    /\ pc' = "final_test"
    /\ UNCHANGED <<cfgVars, callVars, envVars, start_epoch, disk, nets, g_optimizer,
                   d_optimizer, epoch, batch, train_loss, train_hist, val_hist, tm,
                   tm_result, log>>

\* an enumeration that skips every other batch
NextBatchSkipping(b) == b + 2

\* line 147: the next index of enumerate(train_dataset)
NextBatch(b) == b + 1

\* lines 147-153: train_step on the batch, its losses appended to the histories
TrainBatch ==
    /\ pc = "batch_head"
    /\ batch < num_batches
    /\ nets' = TrainStepNets(nets)
    /\ g_optimizer' = TrainStepOpt(g_optimizer)
    /\ d_optimizer' = TrainStepOpt(d_optimizer)
    /\ train_loss' = LossRecord(nets, batch)
    /\ train_hist' = [f \in LossFields |-> Append(train_hist[f], train_loss'[f])]
    /\ log' = Append(log, Ev("train_step", epoch, batch, -1))
    /\ pc' = "snapshot"
    /\ UNCHANGED <<cfgVars, callVars, envVars, start_epoch, disk, epoch, batch,
                   val_hist, tm, tm_result>>

\* line 147: the dataset is exhausted
BatchLoopExit ==
    /\ pc = "batch_head"
    /\ batch >= num_batches
    /\ pc' = "post_loop"
    /\ UNCHANGED <<cfgVars, callVars, envVars, start_epoch, disk, nets, g_optimizer,
                   d_optimizer, epoch, batch, train_loss, train_hist, val_hist, tm,
                   tm_result, log>>

\* a snapshot test that skips batch 0, as the validation test does
SnapshotDueSkippingZero(b) == b % SAVE_EVERY_TRAIN = 0 /\ b # 0

\* line 155: if batch % SAVE_EVERY_TRAIN == 0
SnapshotDue(b) == b % SAVE_EVERY_TRAIN = 0

\* line 156: cycle_gan_model.generator_G(noisy_batch, training=False)
SnapshotNets(m) == TestStepNets(m)

\* lines 155-157: the training image snapshot
Snapshot ==
    /\ pc = "snapshot"
    /\ nets' = (IF SnapshotDue(batch) THEN SnapshotNets(nets) ELSE nets)
    /\ log' = (IF SnapshotDue(batch)
               THEN Append(log, Ev("save_images_train", epoch, batch, -1))
               ELSE log)
    /\ pc' = "validation"
    /\ UNCHANGED <<cfgVars, callVars, envVars, start_epoch, disk, g_optimizer,
                   d_optimizer, epoch, batch, train_loss, train_hist, val_hist, tm,
                   tm_result>>

\* a validation test without the batch != 0 conjunct
ValidationDueOnZero(b) == b % VALIDATION_EVERY = 0

\* line 158: if batch % VALIDATION_EVERY == 0 and batch != 0
ValidationDue(b) == b % VALIDATION_EVERY = 0 /\ b # 0

\* a validation pass that plots
ValidationPlotting == TRUE

\* line 160: plot=False
ValidationPlot == FALSE

\* lines 158-160: test_model is called on the validation dataset
ValidationCall ==
    /\ pc = "validation"
    /\ ValidationDue(batch)
    /\ tm' = Call("val", ValidationPlot, epoch, batch)
    /\ log' = Append(log, Ev("validation", epoch, batch, -1))
    /\ pc' = "in_validation"
    /\ UNCHANGED <<cfgVars, callVars, envVars, start_epoch, disk, nets, g_optimizer,
                   d_optimizer, epoch, batch, train_loss, train_hist, val_hist,
                   tm_result>>

\* line 158: no validation after this batch
ValidationSkip ==
    /\ pc = "validation"
    /\ ~ValidationDue(batch)
    /\ batch' = NextBatch(batch)
    /\ pc' = "batch_head"
    /\ UNCHANGED <<cfgVars, callVars, envVars, start_epoch, disk, nets, g_optimizer,
                   d_optimizer, epoch, train_loss, train_hist, val_hist, tm,
                   tm_result, log>>

\* lines 161-164: the averages are appended to the validation histories
ValidationAppend ==
    /\ pc = "validation_append"
    /\ val_hist' = [f \in DOMAIN val_hist |-> Append(val_hist[f], tm_result[f])]
    /\ batch' = NextBatch(batch)
    /\ pc' = "batch_head"
    /\ UNCHANGED <<cfgVars, callVars, envVars, start_epoch, disk, nets, g_optimizer,
                   d_optimizer, epoch, train_loss, train_hist, tm, tm_result, log>>

\* a loop that collects the losses once per batch only
PostLoopNothing(f) == <<>>

\* lines 165-168: what is appended to the history of field f after the batch loop
PostLoopEntries(f) == <<train_loss[f]>>

\* a train_loss that is bound before the loop
TrainLossPreset == FALSE

\* line 165: train_loss is read; it is unbound if no batch has assigned it
TrainLossUnbound == train_loss = NoLoss

\* lines 165-168: the losses of train_loss are appended once more
PostLoopAppend ==
    /\ pc = "post_loop"
    /\ ~TrainLossUnbound
    /\ train_hist' = [f \in LossFields |-> train_hist[f] \o PostLoopEntries(f)]
    /\ pc' = "save"
    /\ UNCHANGED <<cfgVars, callVars, envVars, start_epoch, disk, nets, g_optimizer,
                   d_optimizer, epoch, batch, train_loss, val_hist, tm, tm_result,
                   log>>

\* line 165: train_loss was never assigned, the read raises
PostLoopUnbound ==
    /\ pc = "post_loop"
    /\ TrainLossUnbound
    /\ log' = Append(log, Ev("raise", epoch, -1, -1))
    /\ pc' = "raised"
    /\ UNCHANGED <<cfgVars, callVars, envVars, start_epoch, disk, nets, g_optimizer,
                   d_optimizer, epoch, batch, train_loss, train_hist, val_hist, tm,
                   tm_result>>

\* line 171: the tag passed to save_models
SaveTag(e) == e

\* lines 170-172: the checkpoint of the epoch, then the next epoch
SaveModels ==
    /\ pc = "save"
    /\ disk' = save_models(nets, SaveTag(epoch))
    /\ log' = Append(log, Ev("save_models", SaveTag(epoch), -1, -1))
    /\ epoch' = epoch + 1
    /\ pc' = "epoch_head"
    /\ UNCHANGED <<cfgVars, callVars, envVars, start_epoch, nets, g_optimizer,
                   d_optimizer, batch, train_loss, train_hist, val_hist, tm,
                   tm_result>>

\* a run that ends with the last epoch
AfterEpochLoopNoTest == "done"

\* line 174: what follows the epoch loop
AfterEpochLoop == "in_final_test"

\* lines 174-175: the final test pass
FinalTestCall ==
    /\ pc = "final_test"
    /\ tm' = (IF AfterEpochLoop = "in_final_test"
              THEN Call("test", FALSE, -1, -1) ELSE tm)
    /\ log' = (IF AfterEpochLoop = "in_final_test"
               THEN Append(log, Ev("final_test", -1, -1, -1)) ELSE log)
    /\ pc' = AfterEpochLoop
    /\ UNCHANGED <<cfgVars, callVars, envVars, start_epoch, disk, nets, g_optimizer,
                   d_optimizer, epoch, batch, train_loss, train_hist, val_hist,
                   tm_result>>

\* ------------------------------------------------ load_model_and_only_test
\* line 192: the checkpoint is loaded
OnlyTestLoaded ==
    /\ pc = "start" /\ entry = "load_model_and_only_test"
    /\ LoadSucceeds(arg_epoch)
    /\ nets' = load_models(arg_epoch)
    /\ log' = Append(log, Ev("load_models", arg_epoch, -1, -1))
    /\ pc' = "only_test_compile"
    /\ UNCHANGED <<cfgVars, callVars, envVars, start_epoch, disk, g_optimizer,
                   d_optimizer, epoch, batch, train_loss, train_hist, val_hist,
                   tm, tm_result>>

\* a test-only entry point that falls back to new networks, as run() does
OnlyTestFallsBack == "only_test_compile"

\* line 192: what a failing load_models leads to (no handler: the error leaves
\* the function)
OnlyTestOnLoadError == "raised"

\* line 192: load_models raises
OnlyTestLoadError ==
    /\ pc = "start" /\ entry = "load_model_and_only_test"
    /\ ~LoadSucceeds(arg_epoch)
    /\ nets' = (IF OnlyTestOnLoadError = "raised" THEN nets ELSE FreshNets)
    /\ log' = log \o <<Ev("load_models", arg_epoch, -1, -1)>>
                  \o (IF OnlyTestOnLoadError = "raised"
                      THEN <<Ev("raise", arg_epoch, -1, -1)>> ELSE <<>>)
    /\ pc' = OnlyTestOnLoadError
    /\ UNCHANGED <<cfgVars, callVars, envVars, start_epoch, disk, g_optimizer,
                   d_optimizer, epoch, batch, train_loss, train_hist, val_hist,
                   tm, tm_result>>

\* lines 193-194: the optimizers of the test-only entry point
OnlyTestGenOptimizer == Adam(LEARNING_RATE_GEN, BETA)
OnlyTestDiscOptimizer == Adam(LEARNING_RATE_DISC, BETA)

\* lines 193-215: optimizers, model, test dataset
OnlyTestCompile ==
    /\ pc = "only_test_compile"
    /\ g_optimizer' = OnlyTestGenOptimizer
    /\ d_optimizer' = OnlyTestDiscOptimizer
    /\ pc' = "only_test"
    /\ UNCHANGED <<cfgVars, callVars, envVars, start_epoch, disk, nets, epoch, batch,
                   train_loss, train_hist, val_hist, tm, tm_result, log>>

\* line 218: the test pass
OnlyTestCall ==
    /\ pc = "only_test"
    /\ tm' = Call("test", FALSE, -1, -1)
    /\ log' = Append(log, Ev("final_test", -1, -1, -1))
    /\ pc' = "in_only_test"
    /\ UNCHANGED <<cfgVars, callVars, envVars, start_epoch, disk, nets, g_optimizer,
                   d_optimizer, epoch, batch, train_loss, train_hist, val_hist,
                   tm_result>>

\* ------------------------------------------------------------ specification
Next ==
    \/ RunResumeLoaded
    \/ RunResumeFallback
    \/ RunFreshModels
    \/ RunCompile
    \/ EpochBegin
    \/ EpochLoopExit
    \/ TrainBatch
    \/ BatchLoopExit
    \/ Snapshot
    \/ ValidationCall
    \/ ValidationSkip
    \/ ValidationAppend
    \/ PostLoopAppend
    \/ PostLoopUnbound
    \/ SaveModels
    \/ FinalTestCall
    \/ TestModelBatch
    \/ TestModelReturn
    \/ OnlyTestLoaded
    \/ OnlyTestLoadError
    \/ OnlyTestCompile
    \/ OnlyTestCall

Spec == Init /\ [][Next]_vars

\* ------------------------------------------------- reading the history
Positions(op) == {i \in DOMAIN log : log[i].op = op}
TrainPos == Positions("train_step")

\* (e1, b1) before (e2, b2) in lexicographic order
LexLess(e1, b1, e2, b2) == e1 < e2 \/ (e1 = e2 /\ b1 < b2)

\* event i comes after the train step of (e, b) and before every later train step
AfterTrainStepOf(i, e, b) ==
    /\ \E j \in TrainPos : j < i /\ log[j].e = e /\ log[j].b = b
    /\ \A j \in TrainPos :
          /\ j < i => ~LexLess(e, b, log[j].e, log[j].b)
          /\ j > i => LexLess(e, b, log[j].e, log[j].b)

\* the epochs of run() whose batch loop has run to its end
EpochsFinished ==
    IF entry = "run" /\ epoch >= 0
    THEN {e \in start_epoch..epoch : e < epoch \/ pc \in {"post_loop", "save"}}
    ELSE {}

\* ----------------------------------------------------------------- claims
\* C1: in every training epoch with K >= 1 batches, validation is triggered
\* exactly floor((K-1)/VALIDATION_EVERY) times: once after the train step of
\* each batch b > 0 with b mod VALIDATION_EVERY = 0, and never on batch 0.
C1_ValidationCadence ==
    (entry = "run" /\ num_batches >= 1) =>
       /\ \A i \in Positions("validation") :
             /\ log[i].b > 0
             /\ log[i].b % VALIDATION_EVERY = 0
             /\ AfterTrainStepOf(i, log[i].e, log[i].b)
       /\ \A e \in EpochsFinished :
             /\ Cardinality({i \in Positions("validation") : log[i].e = e})
                  = (num_batches - 1) \div VALIDATION_EVERY
             /\ \A b \in 1..(num_batches - 1) :
                   b % VALIDATION_EVERY = 0 =>
                      \E i \in Positions("validation") : log[i].e = e /\ log[i].b = b

\* an epoch of three batches validated after each batch but the first has ended
C1_Witness ==
    /\ entry = "run" /\ pc = "save"
    /\ num_batches = 3 /\ VALIDATION_EVERY = 1
    /\ Cardinality({i \in Positions("validation") : log[i].e = epoch}) = 2

\* C6: in every epoch a training snapshot is saved exactly for the batches b
\* with b mod SAVE_EVERY_TRAIN = 0, batch 0 included, that is ceil(K/S) times,
\* each after the train step of b and before the train step of b+1.
C6_SnapshotCadence ==
    entry = "run" =>
       /\ \A i \in Positions("save_images_train") :
             /\ log[i].b % SAVE_EVERY_TRAIN = 0
             /\ AfterTrainStepOf(i, log[i].e, log[i].b)
       /\ \A e \in EpochsFinished :
             /\ Cardinality({i \in Positions("save_images_train") : log[i].e = e})
                  = (num_batches + SAVE_EVERY_TRAIN - 1) \div SAVE_EVERY_TRAIN
             /\ \A b \in 0..(num_batches - 1) :
                   b % SAVE_EVERY_TRAIN = 0 =>
                      \E i \in Positions("save_images_train") :
                         log[i].e = e /\ log[i].b = b

\* an epoch of three batches with a snapshot every second batch has ended:
\* snapshots for batches 0 and 2
C6_Witness ==
    /\ entry = "run" /\ pc = "save"
    /\ num_batches = 3 /\ SAVE_EVERY_TRAIN = 2
    /\ Cardinality({i \in Positions("save_images_train") : log[i].e = epoch}) = 2

\* C5: the networks and the optimizer states are changed by the train step
\* alone: whatever validation passes, test passes and snapshots have run, every
\* network has received exactly one update, and each optimizer two
\* applications, per train step performed.
C5_OnlyTrainStepMutates ==
    /\ nets # NoNets =>
          \A n \in NetNames :
             /\ nets[n].ver = Cardinality(TrainPos)
             /\ nets[n].origin \in {"fresh", "ckpt"}
    /\ g_optimizer.steps = 2 * Cardinality(TrainPos)
    /\ d_optimizer.steps = 2 * Cardinality(TrainPos)

\* a train step has just run after a validation pass over a non-empty
\* validation set and after a snapshot
C5_Witness ==
    /\ entry = "run" /\ pc = "snapshot" /\ batch >= 1
    /\ Positions("test_step") # {}
    /\ Positions("save_images_train") # {}

\* C7: a run that returns normally has made exactly one final test pass, over
\* the test dataset and without plotting, after every train step and every
\* checkpoint save; so it is when no epoch was executed.
C7_OneFinalTest ==
    entry = "run" =>
       /\ Cardinality(Positions("final_test")) <= 1
       /\ \A i \in Positions("final_test") :
             \A j \in TrainPos \cup Positions("save_models") \cup Positions("epoch") :
                j < i
       /\ pc = "done" =>
             /\ Cardinality(Positions("final_test")) = 1
             /\ \A i \in Positions("final_test") :
                   Cardinality({j \in Positions("test_step") : j > i}) = test_batches
             /\ log[Len(log)] = Ev("test_model_return", -1, -1, test_batches)
             /\ \A i \in Positions("final_test"), j \in Positions("plot_images") :
                   j < i

\* a run of all epochs has returned
C7_Witness ==
    /\ entry = "run" /\ pc = "done"
    /\ Cardinality(Positions("save_models")) = EPOCHS
    /\ test_batches >= 1

\* C8: load_model_and_only_test loads once, runs one test pass over the test
\* dataset, takes no train step and saves no checkpoint, so the loaded networks
\* and the checkpoint store are unchanged; a failing load leaves the function
\* as an error, with no test pass and no fallback networks.
C8_OnlyTest ==
    entry = "load_model_and_only_test" =>
       /\ TrainPos = {}
       /\ Positions("save_models") = {}
       /\ \A e \in Tags : disk[e] \in {PriorCkpt(e), CorruptCkpt, NoCkpt}
       /\ Cardinality(Positions("load_models")) <= 1
       /\ pc = "done" =>
             /\ log[1] = Ev("load_models", arg_epoch, -1, -1)
             /\ Cardinality(Positions("final_test")) = 1
             /\ Cardinality(Positions("test_step")) = test_batches
             /\ nets = load_models(arg_epoch)
       /\ (pc # "start" /\ ~LoadSucceeds(arg_epoch)) =>
             /\ pc = "raised"
             /\ nets = NoNets
             /\ Positions("final_test") = {}
             /\ Positions("test_step") = {}

\* the test-only entry point has returned after a pass over a non-empty test set
C8_Witness ==
    /\ entry = "load_model_and_only_test" /\ pc = "done"
    /\ Cardinality(Positions("test_step")) >= 1

\* C2: a resume (resume_train=True) whose checkpoint cannot be loaded, whatever
\* robotics_task is, attempts the load, raises no error and trains from epoch
\* 0 with four new networks.
C2_ResumeWithoutCheckpoint ==
    (entry = "run" /\ resume_train /\ ~LoadSucceeds(arg_epoch) /\ pc # "start") =>
       /\ Positions("load_models") # {}
       /\ pc # "raised"
       /\ start_epoch = 0
       /\ \A n \in NetNames : nets[n].origin = "fresh"
       /\ \A i \in Positions("epoch") :
             (\A j \in Positions("epoch") : i <= j) => log[i].e = 0

\* C3: when load_models raises during a resume, the exception is caught, the
\* four networks are new ones, start_epoch is 0 and the epoch loop runs the
\* epochs 0..EPOCHS-1.
C3_FallbackRunsAllEpochs ==
    (entry = "run" /\ Positions("load_error_caught") # {}) =>
       /\ start_epoch = 0
       /\ \A n \in NetNames : nets[n].origin = "fresh" /\ nets[n].tag = -1
       /\ \A i \in Positions("epoch") :
             log[i].e = Cardinality({j \in Positions("epoch") : j < i})
       /\ pc \in {"done", "raised"} =>
             {log[i].e : i \in Positions("epoch")} = 0..(EPOCHS - 1)

\* C4: every epoch executed is checkpointed exactly once, under its own index
\* and with the networks of the model, after its last train step and
\* validation pass and before the first train step of the next epoch; the tags
\* increase by one and end at EPOCHS-1.
C4_CheckpointEveryEpoch ==
    entry = "run" =>
       /\ \A i \in Positions("save_models") :
             /\ log[i].e = start_epoch
                             + Cardinality({j \in Positions("save_models") : j < i})
             /\ \A j \in TrainPos \cup Positions("validation")
                           \cup Positions("test_model_return") :
                   (j < i /\ log[j].e <= log[i].e) \/ (j > i /\ log[j].e # log[i].e)
             /\ log[i - 1].op \in {"train_step", "save_images_train", "test_model_return"}
       /\ (pc = "epoch_head" /\ epoch > start_epoch) =>
             disk[epoch - 1] = [state |-> "ok", nets |-> nets]
       /\ pc \in {"done", "raised"} =>
             \A i \in Positions("epoch") :
                Cardinality({j \in Positions("save_models") : log[j].e = log[i].e}) = 1
       /\ (pc = "done" /\ Positions("save_models") # {}) =>
             \E i \in Positions("save_models") :
                /\ log[i].e = EPOCHS - 1
                /\ \A j \in Positions("save_models") : j <= i

\* the statement of C4 restricted to training datasets of at least one batch
C4_NonEmptyDataset == num_batches >= 1 => C4_CheckpointEveryEpoch

\* the statement of C3 restricted to training datasets of at least one batch
C3_NonEmptyDataset == num_batches >= 1 => C3_FallbackRunsAllEpochs

\* C9: the optimizers of a training run are built from LEARNING_RATE_GEN,
\* LEARNING_RATE_DISC and BETA, as those of load_model_and_only_test are.
C9_RunUsesConfiguredRates ==
    (pc \notin {"start", "compile", "only_test_compile", "raised"}
       \/ (pc = "raised" /\ entry = "run")) =>
       /\ g_optimizer.lr = LEARNING_RATE_GEN
       /\ d_optimizer.lr = LEARNING_RATE_DISC
       /\ g_optimizer.beta = BETA
       /\ d_optimizer.beta = BETA

\* event ev is an operation of a test_model pass on one batch
InPass(ev) == ev.op \in {"test_step", "save_images_test", "plot_images"} /\ ev.i >= 0
\* event ev is a call of test_model
IsCall(ev) == ev.op \in {"validation", "final_test"}

\* the events of a test_model pass are contiguous: nothing else happens
\* between its call and its return
PassesUninterrupted ==
    \A k \in 2..Len(log) :
       /\ (InPass(log[k]) \/ log[k].op = "test_model_return") =>
             (InPass(log[k - 1]) \/ IsCall(log[k - 1]))
       /\ (InPass(log[k - 1]) \/ IsCall(log[k - 1])) =>
             (InPass(log[k]) \/ log[k].op = "test_model_return")

\* train steps are taken one at a time, in increasing order of (epoch, batch),
\* within [start_epoch, EPOCHS) x [0, K), and a run that returns has taken one
\* for every such pair
TrainStepsInOrder ==
    /\ \A i, j \in TrainPos :
          i < j => LexLess(log[i].e, log[i].b, log[j].e, log[j].b)
    /\ \A i \in TrainPos :
          /\ log[i].e \in start_epoch..(EPOCHS - 1)
          /\ log[i].b \in 0..(num_batches - 1)
    /\ PassesUninterrupted
    /\ tm.active <=> (log # <<>> /\ (InPass(log[Len(log)]) \/ IsCall(log[Len(log)])))
    /\ pc = "done" =>
          \A e \in start_epoch..(EPOCHS - 1), b \in 0..(num_batches - 1) :
             \E i \in TrainPos : log[i].e = e /\ log[i].b = b

\* C10 as stated: train steps run once per (epoch, batch), in order and one at a
\* time, and a run that returns has taken (EPOCHS - start) * K of them.
C10_TotalAsStated ==
    entry = "run" =>
       /\ TrainStepsInOrder
       /\ pc = "done" =>
             Cardinality(TrainPos) = (EPOCHS - start_epoch) * num_batches

EpochsToRun == IF EPOCHS > start_epoch THEN EPOCHS - start_epoch ELSE 0

\* C10 (amended): train steps run once per (epoch, batch) with epoch in
\* [start, EPOCHS) and batch in [0, K), in increasing lexicographic order and
\* one operation at a time, and a run that returns has taken
\* max(EPOCHS - start, 0) * K of them.
C10_TrainStepsOncePerBatch ==
    entry = "run" =>
       /\ TrainStepsInOrder
       /\ pc = "done" => Cardinality(TrainPos) = EpochsToRun * num_batches

\* a run from epoch 0 over a training set of at least two batches, with a
\* validation pass on the way, has returned
C10_Witness ==
    /\ entry = "run" /\ pc = "done"
    /\ start_epoch = 0 /\ num_batches >= 2
    /\ Cardinality(TrainPos) = EPOCHS * num_batches
    /\ Positions("validation") # {}

\* the epochs run() has completed: each one is counted once its checkpoint is saved
EpochsCompleted == epoch - start_epoch

\* C11: after the batch loop of an epoch the losses of its last batch are
\* appended a second time: at every epoch boundary, after n completed epochs
\* of K >= 1 batches, each of the four training histories has n*(K+1) entries,
\* the four have the same length, and the last two entries of every epoch's
\* segment are equal.
C11_LastBatchAppendedTwice ==
    (entry = "run" /\ num_batches >= 1
       /\ pc \in {"epoch_head", "final_test", "in_final_test", "done"}) =>
       \A f \in LossFields :
          /\ Len(train_hist[f]) = EpochsCompleted * (num_batches + 1)
          /\ Len(train_hist[f]) = Len(train_hist["G_loss"])
          /\ \A n \in 1..EpochsCompleted :
                train_hist[f][n * (num_batches + 1)]
                   = train_hist[f][n * (num_batches + 1) - 1]

\* two epochs of three batches have been completed: eight entries per history
C11_Witness ==
    /\ entry = "run" /\ pc = "epoch_head"
    /\ num_batches = 3 /\ EpochsCompleted = 2
    /\ Len(train_hist["D_Y_loss"]) = 8

\* the validation passes of run() that are over: test_model has returned and
\* its averages are appended (lines 158-164)
ValidationsCompleted ==
    Cardinality(Positions("validation"))
       - (IF pc \in {"in_validation", "validation_append"} THEN 1 ELSE 0)

\* the test steps of the validation pass of (e, b)
ValidationSteps(e, b) ==
    {j \in Positions("test_step") : log[j].e = e /\ log[j].b = b}

\* C12: a validation pass of run() never plots, takes one test step per
\* validation batch, and appends one average to each of the four validation
\* histories: the four lists always have the same length, the number of
\* validation passes completed so far.
C12_ValidationPassAppendsOnce ==
    entry = "run" =>
       /\ \A k \in Positions("plot_images") : log[k].e < 0
       /\ \A r \in Positions("test_model_return") :
             log[r].e >= 0 =>
                /\ Cardinality(ValidationSteps(log[r].e, log[r].b)) = val_batches
                /\ {log[j].i : j \in ValidationSteps(log[r].e, log[r].b)}
                      = 0..(val_batches - 1)
       /\ \A f \in DOMAIN val_hist :
             /\ Len(val_hist[f]) = ValidationsCompleted
             /\ \A n \in DOMAIN val_hist[f] : val_hist[f][n][2] = val_batches

\* three validation passes over a non-empty validation set are complete and
\* a fourth is under way
C12_Witness ==
    /\ entry = "run" /\ pc = "in_validation"
    /\ val_batches >= 1
    /\ ValidationsCompleted = 3
    /\ Len(val_hist["avg_F_loss"]) = 3

\* the sum of field f over the Loss Records of batches 0..n-1 under networks m
RECURSIVE SumOverBatches(_, _, _)
SumOverBatches(f, m, n) ==
    IF n = 0 THEN 0 ELSE LossValue(f, m, n - 1) + SumOverBatches(f, m, n - 1)

\* the number of batches of the dataset the pass of event ev runs over
DatasetSize(ev) == IF ev.e >= 0 THEN val_batches ELSE test_batches

\* the test steps of the pass event ev belongs to
PassSteps(ev) == {j \in Positions("test_step") : log[j].e = ev.e /\ log[j].b = ev.b}

\* C13: test_model takes one test step per batch of its dataset, in dataset
\* order; it returns exactly avg_G_loss, avg_F_loss, avg_DX_loss and
\* avg_DY_loss, the means over all batches of G_loss, F_loss, D_X_loss and
\* D_Y_loss; and it saves a snapshot exactly for the batch indices divisible
\* by SAVE_EVERY_TEST, batch 0 included, with plot=False.
C13_TestModel ==
    /\ \A j, k \in Positions("test_step") :
          (j < k /\ log[j].e = log[k].e /\ log[j].b = log[k].b) => log[j].i < log[k].i
    /\ tm.active =>
          /\ ~tm.plot
          /\ {log[j].i : j \in PassSteps(tm)} = 0..(tm.i - 1)
          /\ Cardinality(PassSteps(tm)) = tm.i
    /\ \A r \in Positions("test_model_return") :
          /\ log[r].i = DatasetSize(log[r])
          /\ {log[j].i : j \in PassSteps(log[r])} = 0..(DatasetSize(log[r]) - 1)
          /\ Cardinality(PassSteps(log[r])) = DatasetSize(log[r])
          /\ \A j \in PassSteps(log[r]) : j < r
    /\ \A k \in Positions("save_images_test") :
          /\ log[k].i % SAVE_EVERY_TEST = 0
          /\ k > 1
          /\ log[k - 1] = Ev("test_step", log[k].e, log[k].b, log[k].i)
    /\ \A k \in Positions("test_step") :
          log[k].i % SAVE_EVERY_TEST = 0 =>
             /\ k < Len(log)
             /\ log[k + 1] = Ev("save_images_test", log[k].e, log[k].b, log[k].i)
    /\ DOMAIN tm_result = {"avg_G_loss", "avg_F_loss", "avg_DX_loss", "avg_DY_loss"}
    /\ (log # <<>> /\ log[Len(log)].op = "test_model_return") =>
          LET n == log[Len(log)].i
          IN  /\ tm_result["avg_G_loss"] = <<SumOverBatches("G_loss", nets, n), n>>
              /\ tm_result["avg_F_loss"] = <<SumOverBatches("F_loss", nets, n), n>>
              /\ tm_result["avg_DX_loss"] = <<SumOverBatches("D_X_loss", nets, n), n>>
              /\ tm_result["avg_DY_loss"] = <<SumOverBatches("D_Y_loss", nets, n), n>>

\* a pass over three test batches with SAVE_EVERY_TEST = 2 has returned:
\* snapshots for batches 0 and 2, none for batch 1
C13_Witness ==
    /\ entry = "load_model_and_only_test" /\ pc = "done"
    /\ test_batches = 3 /\ SAVE_EVERY_TEST = 2
    /\ {log[k].i : k \in Positions("save_images_test")} = {0, 2}
    /\ tm_result["avg_DX_loss"][2] = 3

\* the epoch index run() starts from: 0 after a failed load, else the argument
FirstEpoch == IF Positions("load_error_caught") # {} THEN 0 ELSE arg_epoch

\* the resume loaded its checkpoint
ResumeSucceeded == Positions("load_models") # {} /\ Positions("load_error_caught") = {}

\* C14: the epochs run() executes are exactly s, s+1, ..., EPOCHS-1 in
\* increasing order, with s = 0 after a failed checkpoint load and s = the
\* start_epoch argument otherwise (runs without resume build new networks and
\* skip the epochs below start_epoch too); a successful resume from the
\* checkpoint of epoch e runs epoch e again and overwrites the checkpoint
\* tagged e.
C14_EpochsExecuted ==
    entry = "run" =>
       /\ start_epoch = FirstEpoch
       /\ \A i \in Positions("epoch") :
             log[i].e = FirstEpoch + Cardinality({j \in Positions("epoch") : j < i})
       /\ pc \in {"done", "raised"} =>
             {log[i].e : i \in Positions("epoch")} = FirstEpoch..(EPOCHS - 1)
       /\ (~ResumeRequested /\ pc = "compile") => nets = FreshNets
       /\ (ResumeSucceeded /\ pc \in {"done", "raised"} /\ arg_epoch < EPOCHS) =>
             /\ \E i \in Positions("epoch") :
                   log[i].e = arg_epoch /\ \A j \in Positions("epoch") : i <= j
             /\ \E i \in Positions("save_models") : log[i].e = arg_epoch
             /\ disk[arg_epoch].state = "ok"
             /\ disk[arg_epoch] # PriorCkpt(arg_epoch)

\* the statement of C14 restricted to training datasets of at least one batch
C14_NonEmptyDataset == num_batches >= 1 => C14_EpochsExecuted

\* the networks as they were before the latest train step
NetsBeforeLastStep == [n \in NetNames |-> [nets[n] EXCEPT !.ver = @ - 1]]

\* C15: with a training dataset of zero batches the first executed epoch of
\* run() fails at the post-loop append, train_loss never having been
\* assigned, with an error nothing handles, before any checkpoint is saved
\* and before the final test pass; with K >= 1 batches the post-loop append
\* takes the Loss Record of the last batch of the current epoch.
C15_PostLoopAppend ==
    entry = "run" =>
       /\ (num_batches = 0 /\ Positions("epoch") # {}) =>
             /\ pc \in {"batch_head", "post_loop", "raised"}
             /\ Cardinality(Positions("epoch")) = 1
             /\ \A i \in Positions("epoch") : log[i].e = start_epoch
             /\ epoch = start_epoch
             /\ train_loss = NoLoss
             /\ Positions("train_step") = {}
             /\ Positions("save_models") = {}
             /\ Positions("final_test") = {}
             /\ Positions("test_step") = {}
             /\ pc = "raised" => log[Len(log)] = Ev("raise", start_epoch, -1, -1)
       /\ Positions("raise") # {} => (num_batches = 0 /\ pc = "raised")
       /\ (num_batches >= 1 /\ pc \in {"post_loop", "save"}) =>
             /\ train_loss = LossRecord(NetsBeforeLastStep, num_batches - 1)
             /\ \E i \in TrainPos :
                   /\ log[i].e = epoch /\ log[i].b = num_batches - 1
                   /\ \A j \in TrainPos : j <= i
       /\ (num_batches >= 1 /\ pc = "save") =>
             \A f \in LossFields :
                train_hist[f][Len(train_hist[f])]
                   = LossValue(f, NetsBeforeLastStep, num_batches - 1)

\* a run over an empty training dataset has raised in its first epoch, with
\* a further epoch still to come
C15_Witness ==
    /\ entry = "run" /\ num_batches = 0 /\ pc = "raised"
    /\ start_epoch + 1 < EPOCHS
    /\ log[Len(log)].op = "raise"

====
